---- MODULE Spec2Model ----
(***************************************************************************)
(* Model of src/monitor.py: the flight-deal monitor.                       *)
(*                                                                         *)
(* monitor_once reads the active rows of the Monitors sheet, runs          *)
(* handle_row on each of them in order and appends one Run_Log row.        *)
(* handle_row asks the model for deals (call_gpt_web), extracts them       *)
(* (extract_deals_from_gpt), sorts them by price, writes the best one      *)
(* back into the row (update_monitor_row) and, under the ceiling, sends an *)
(* e-mail (send_email_alert) and appends an Alerts_Log row.                *)
(*                                                                         *)
(* Abstractions.                                                           *)
(*  - Text is a sequence of tokens.  A token is a record [t, price,        *)
(*    source]; t is "{" or "}" (braces), "D" (the key and bracket          *)
(*    `"deals": [`), "]" , "n" (a scalar array element such as `5`),       *)
(*    "x" (prose) or "F" (the members of one deal object, of which the     *)
(*    model keeps price_per_person_usd and source_site).  Commas and       *)
(*    white space are not tokens.                                          *)
(*  - A float is an integer; a cell of the sheet is a record               *)
(*    [num, v]: num = TRUE is the decimal string of v, num = FALSE is a    *)
(*    string that float() rejects when v # 0 and the empty string when     *)
(*    v = 0.                                                               *)
(*  - A timestamp is the value of the wall clock in whole seconds.  The     *)
(*    model keeps the timestamp of a Monitors row (LastCheckedUTC), not    *)
(*    the ones of Run_Log rows, Alerts_Log rows and e-mails; of a log row  *)
(*    or e-mail it keeps the fields named in the action that writes it.    *)
(*  - The rows of the Monitors tab share one MaxPricePerPersonUSD cell     *)
(*    value per behaviour; which rows are active is free.                  *)
(*  - A call of an external service that raises has no effect on the       *)
(*    service.                                                             *)
(*  - monitor_once runs again and again (a scheduler starts it); Run_Log,  *)
(*    Alerts_Log and the e-mails are kept for the current run only, the    *)
(*    program never reads them.                                            *)
(***************************************************************************)
EXTENDS Integers, Sequences, FiniteSets, TLC

\* ------------------------------------------------------------------------
\* Bounds of the model
\* ------------------------------------------------------------------------
NumRows == 2
MaxClock == 2
MaxLen == 4
MaxDeals == 2

\* ------------------------------------------------------------------------
\* Program constants
\* ------------------------------------------------------------------------
\* price_val: float(d.get("price_per_person_usd", 999999)) / except: 999999.0
PriceSentinel == 999999
\* handle_row: max_pp_val = float(max_pp_raw) if max_pp_raw else 9999.0
DefaultCeiling == 9999
\* read_monitors: enumerate(rows[1:], start=2)
FirstRowNum == 2

\* ------------------------------------------------------------------------
\* Values
\* ------------------------------------------------------------------------
\* Cells of the sheet (strings)
Blank == [num |-> FALSE, v |-> 0]
Junk == [num |-> FALSE, v |-> 1]
NumStr(n) == [num |-> TRUE, v |-> n]

\* JSON values of price_per_person_usd: a number, a string holding a
\* number, another string, null, or no such key.
PNum(n) == [k |-> "num", v |-> n]
PNumStr(n) == [k |-> "numstr", v |-> n]
PStr == [k |-> "str", v |-> 0]
PNull == [k |-> "null", v |-> 0]
PMissing == [k |-> "missing", v |-> 0]

\* Elements of a deals array: a JSON object or a scalar.
Deal(p, s) == [kind |-> "dict", price |-> p, source |-> s]
Scalar == [kind |-> "scalar", price |-> PMissing, source |-> ""]

\* Tokens
Tok(t) == [t |-> t, price |-> PMissing, source |-> ""]
FTok(p, s) == [t |-> "F", price |-> p, source |-> s]

\* ------------------------------------------------------------------------
\* json.loads on a token span that starts with "{"
\* ------------------------------------------------------------------------
ParseFail == [ok |-> FALSE, hasDeals |-> FALSE, deals |-> <<>>, price |-> PMissing, source |-> ""]

\* The elements between `"deals": [` and `]`.
RECURSIVE ParseElems(_)
ParseElems(s) ==
    IF s = <<>> THEN [ok |-> TRUE, deals |-> <<>>]
    ELSE IF s[1].t = "n" THEN
        LET r == ParseElems(Tail(s))
        IN  [ok |-> r.ok, deals |-> <<Scalar>> \o r.deals]
    ELSE IF s[1].t = "{" /\ Len(s) >= 2 /\ s[2].t = "}" THEN
        LET r == ParseElems(SubSeq(s, 3, Len(s)))
        IN  [ok |-> r.ok, deals |-> <<Deal(PMissing, "")>> \o r.deals]
    ELSE IF s[1].t = "{" /\ Len(s) >= 3 /\ s[2].t = "F" /\ s[3].t = "}" THEN
        LET r == ParseElems(SubSeq(s, 4, Len(s)))
        IN  [ok |-> r.ok, deals |-> <<Deal(s[2].price, s[2].source)>> \o r.deals]
    ELSE [ok |-> FALSE, deals |-> <<>>]

\* json.loads(span): the object, or a failure (ValueError).
json_loads(span) ==
    IF Len(span) < 2 \/ span[1].t # "{" \/ span[Len(span)].t # "}" THEN ParseFail
    ELSE LET inner == SubSeq(span, 2, Len(span) - 1)
         IN  IF inner = <<>> THEN
                 [ok |-> TRUE, hasDeals |-> FALSE, deals |-> <<>>, price |-> PMissing, source |-> ""]
             ELSE IF Len(inner) = 1 /\ inner[1].t = "F" THEN
                 [ok |-> TRUE, hasDeals |-> FALSE, deals |-> <<>>,
                  price |-> inner[1].price, source |-> inner[1].source]
             ELSE IF Len(inner) >= 2 /\ inner[1].t = "D" /\ inner[Len(inner)].t = "]" THEN
                 LET r == ParseElems(SubSeq(inner, 2, Len(inner) - 1))
                 IN  IF r.ok
                     THEN [ok |-> TRUE, hasDeals |-> TRUE, deals |-> r.deals,
                           price |-> PMissing, source |-> ""]
                     ELSE ParseFail
             ELSE ParseFail

\* ------------------------------------------------------------------------
\* safe_extract_deals_json
\* ------------------------------------------------------------------------
\* raw_text.find("{"): the first index of "{", 0 when there is none.
RECURSIVE FindBrace(_, _)
FindBrace(raw, i) ==
    IF i > Len(raw) THEN 0
    ELSE IF raw[i].t = "{" THEN i
    ELSE FindBrace(raw, i + 1)

\* ScanDepth stopping at the first "}" whatever the depth is.
RECURSIVE ScanDepth_FirstClose(_, _, _, _)
ScanDepth_FirstClose(raw, start, i, depth) ==
    IF i > Len(raw) THEN <<>>
    ELSE IF raw[i].t = "}" THEN SubSeq(raw, start, i)
    ELSE ScanDepth_FirstClose(raw, start, i + 1, depth)

\* The loop over range(start, len(raw_text)) with its depth counter.
RECURSIVE ScanDepth(_, _, _, _)
ScanDepth(raw, start, i, depth) ==
    IF i > Len(raw) THEN <<>>
    ELSE IF raw[i].t = "{" THEN ScanDepth(raw, start, i + 1, depth + 1)
    ELSE IF raw[i].t = "}" THEN
        IF depth - 1 = 0 THEN SubSeq(raw, start, i)
        ELSE ScanDepth(raw, start, i + 1, depth - 1)
    ELSE ScanDepth(raw, start, i + 1, depth)

safe_extract_deals_json(raw) ==
    LET start == FindBrace(raw, 1)
    IN  IF start = 0 THEN <<>> ELSE ScanDepth(raw, start, start, 0)

\* ------------------------------------------------------------------------
\* fallback_single_deal
\* ------------------------------------------------------------------------
\* re.search(r'"deals"\s*:\s*\[\s*(\{.*?\})'): the leftmost "D" directly
\* followed by "{" with a "}" somewhere after it; the lazy .*? stops at the
\* first such "}".
RECURSIVE FirstClose(_, _)
FirstClose(raw, j) ==
    IF j > Len(raw) THEN 0
    ELSE IF raw[j].t = "}" THEN j
    ELSE FirstClose(raw, j + 1)

RECURSIVE RegexSearch(_, _)
RegexSearch(raw, i) ==
    IF i + 1 > Len(raw) THEN <<>>
    ELSE IF raw[i].t = "D" /\ raw[i + 1].t = "{" /\ FirstClose(raw, i + 2) # 0
         THEN SubSeq(raw, i + 1, FirstClose(raw, i + 2))
         ELSE RegexSearch(raw, i + 1)

\* fallback_single_deal returning a record for an object it could not parse.
fallback_single_deal_Partial(raw) ==
    LET first_obj_txt == RegexSearch(raw, 1)
    IN  IF first_obj_txt = <<>> THEN <<>>
        ELSE LET deal_obj == json_loads(first_obj_txt)
             IN  <<Deal(deal_obj.price, deal_obj.source)>>

\* Lines 294-308: the first object after the marker, if json.loads takes it.
fallback_single_deal(raw) ==
    LET first_obj_txt == RegexSearch(raw, 1)
    IN  IF first_obj_txt = <<>> THEN <<>>
        ELSE LET deal_obj == json_loads(first_obj_txt)
             IN  IF deal_obj.ok THEN <<Deal(deal_obj.price, deal_obj.source)>>
                 ELSE <<>>

\* ------------------------------------------------------------------------
\* extract_deals_from_gpt: the deals returned, and whether the fallback ran
\* ------------------------------------------------------------------------
\* extract_deals_from_gpt without the return of line 324: the fallback runs
\* after the balanced object and its result is returned.
extract_deals_from_gpt_NoEarlyReturn(raw) ==
    [deals |-> fallback_single_deal(raw), fallback |-> TRUE]

extract_deals_from_gpt(raw) ==
    LET balanced_json == safe_extract_deals_json(raw)
        data == json_loads(balanced_json)
    IN  IF balanced_json # <<>> /\ data.ok
        THEN [deals |-> data.deals, fallback |-> FALSE]
        ELSE [deals |-> fallback_single_deal(raw), fallback |-> TRUE]

\* ------------------------------------------------------------------------
\* The ranker of handle_row
\* ------------------------------------------------------------------------
\* price_val: float() of the price, 999999.0 on any exception (a scalar has
\* no .get; float(None) and float("abc") raise).
price_val(d) ==
    IF d.kind = "scalar" THEN PriceSentinel
    ELSE IF d.price.k \in {"num", "numstr"} THEN d.price.v
    ELSE PriceSentinel

\* InsertByKey putting an element before the elements of equal key.
RECURSIVE InsertByKey_Unstable(_, _)
InsertByKey_Unstable(sorted, d) ==
    IF sorted = <<>> THEN <<d>>
    ELSE IF price_val(Head(sorted)) < price_val(d)
         THEN <<Head(sorted)>> \o InsertByKey_Unstable(Tail(sorted), d)
         ELSE <<d>> \o sorted

\* deals.sort(key=price_val): list.sort is stable, so an element goes after
\* every element whose key is <= its own.
RECURSIVE InsertByKey(_, _)
InsertByKey(sorted, d) ==
    IF sorted = <<>> THEN <<d>>
    ELSE IF price_val(Head(sorted)) <= price_val(d)
         THEN <<Head(sorted)>> \o InsertByKey(Tail(sorted), d)
         ELSE <<d>> \o sorted

RECURSIVE SortPrefix(_, _)
SortPrefix(ds, n) ==
    IF n = 0 THEN <<>> ELSE InsertByKey(SortPrefix(ds, n - 1), ds[n])

sort_by_price(ds) == SortPrefix(ds, Len(ds))

\* meets_threshold with < for <=.
meets_threshold_Strict(price, ceiling) == price < ceiling

\* Line 463: the price is under the ceiling.
meets_threshold(price, ceiling) == price <= ceiling

\* write_on_gpt_error writing the cells back as they are.
write_on_gpt_error_KeepBest(cells) ==
    [price |-> cells.LastBestPricePerPerson, source |-> cells.LastBestSource]

\* Line 435: what handle_row writes into a row (whose cells are given) when
\* call_gpt_web raised.
write_on_gpt_error(cells) == [price |-> Blank, source |-> "gpt_call_failed"]

\* write_on_no_deals writing the cells back as they are.
write_on_no_deals_KeepBest(cells) ==
    [price |-> cells.LastBestPricePerPerson, source |-> cells.LastBestSource]

\* Line 442: what handle_row writes into a row when there are no deals.
write_on_no_deals(cells) == [price |-> Blank, source |-> "no_deals_found"]

\* Line 460: what handle_row writes into a row when best is the best deal.
write_on_best(best) == [price |-> NumStr(price_val(best)), source |-> best.source]

\* sheet_after_update leaving column O, the timestamp, as it is.
sheet_after_update_NoTimestamp(sh, row_num, args, ts) ==
    [sh EXCEPT ![row_num] =
        [@ EXCEPT !.LastBestPricePerPerson = args.price,
                  !.LastBestSource = args.source]]

\* Lines 95-103: the sheet after the update of the range M:O of one row
\* with the price, the source and the timestamp now_utc_iso gave.
sheet_after_update(sh, row_num, args, ts) ==
    [sh EXCEPT ![row_num] =
        [@ EXCEPT !.LastBestPricePerPerson = args.price,
                  !.LastBestSource = args.source,
                  !.LastCheckedUTC = ts]]

\* EffectiveCeiling taking the number zero for a blank cell.
EffectiveCeiling_ZeroIsBlank(max_pp_raw) ==
    IF max_pp_raw = Blank \/ max_pp_raw.v = 0 THEN DefaultCeiling
    ELSE IF max_pp_raw.num THEN max_pp_raw.v
    ELSE DefaultCeiling

\* max_pp_val of handle_row
EffectiveCeiling(max_pp_raw) ==
    IF max_pp_raw = Blank THEN DefaultCeiling
    ELSE IF max_pp_raw.num THEN max_pp_raw.v
    ELSE DefaultCeiling

\* ------------------------------------------------------------------------
\* Inputs
\* ------------------------------------------------------------------------
SeqsUpTo(S, n) == UNION {[1..k -> S] : k \in 0..n}

\* The text the system prompt of call_gpt_web asks for: one object with a
\* deals array.
RECURSIVE RenderElems(_)
RenderElems(ds) ==
    IF ds = <<>> THEN <<>>
    ELSE (IF Head(ds).kind = "scalar" THEN <<Tok("n")>>
          ELSE <<Tok("{"), FTok(Head(ds).price, Head(ds).source), Tok("}")>>)
         \o RenderElems(Tail(ds))

Render(ds) == <<Tok("{"), Tok("D")>> \o RenderElems(ds) \o <<Tok("]"), Tok("}")>>

Cheap == Deal(PNum(150), "kayak")
Dear == Deal(PNumStr(200), "expedia")
Malformed == Deal(PStr, "expedia")

\* MaxPricePerPersonUSD cells: blank, not a number, the price of the cheap
\* deal and a number above the sentinel.
Ceilings == {Blank, Junk, NumStr(150), NumStr(1000000)}

\* MaxPricePerPersonUSD cells around zero: blank, not a number, "0", a
\* negative number and the price of the cheap deal.
CeilingCells == {Blank, Junk, NumStr(0), NumStr(-5), NumStr(150)}

\* The answers call_gpt_web gives in a run of monitor_once.
RunTexts ==
    { <<Tok("x")>> \o Render(<<Cheap>>) \o <<Tok("x")>>,
      Render(<<Malformed, Dear>>),
      Render(<<Malformed>>),
      Render(<<Scalar>>),
      Render(<<>>),
      SubSeq(Render(<<Cheap, Malformed>>), 1, 6),
      <<Tok("x")>> }

\* The texts the extractor is run on by itself: every short token sequence,
\* and every rendered deals array cut anywhere, inside prose or not.
Alphabet ==
    {Tok("{"), Tok("}"), Tok("D"), Tok("]"), Tok("n"), Tok("x"), FTok(PNum(150), "kayak")}

ShortTexts == SeqsUpTo(Alphabet, MaxLen)

Prefixes(s) == {SubSeq(s, 1, k) : k \in 0..Len(s)}

CutTexts ==
    { pre \o body \o post :
        pre \in {<<>>, <<Tok("x")>>},
        body \in UNION {Prefixes(Render(ds)) : ds \in SeqsUpTo({Cheap, Malformed, Scalar}, MaxDeals)},
        post \in {<<>>, <<Tok("x")>>, <<Tok("{"), Tok("}")>>, Render(<<Cheap>>)} }

\* The deals arrays the ranker is run on.
RankPrices == {PNum(50), PNum(150), PNumStr(50), PStr, PNull, PMissing, PNum(1000000)}
RankOffers == {Deal(p, s) : p \in RankPrices, s \in {"kayak", "expedia"}}
RankTexts == {Render(ds) : ds \in SeqsUpTo(RankOffers, MaxDeals + 1) \ {<<>>}}

\* ------------------------------------------------------------------------
\* State
\* ------------------------------------------------------------------------
VARIABLES
    sheet,        \* Monitors tab: row number -> cells of the row
    runLog,       \* Run_Log tab: the rows appended by this run
    alertsLog,    \* Alerts_Log tab: the rows appended by this run
    outbox,       \* e-mails sent by this run
    clock,        \* wall clock in seconds
    pc,           \* monitor_once: "idle", "rows", "heartbeat", "done", "raised"
    monitors,     \* monitor_once: the list read_monitors returned
    i,            \* monitor_once: index in monitors of the row in handle_row
    statuses,     \* monitor_once: the statuses collected
    hpc,          \* handle_row: "none", "query", "parse", "update", "notify", "alertlog", "return"
    max_pp_val,   \* handle_row: the ceiling
    raw,          \* handle_row: the answer of call_gpt_web
    deals,        \* handle_row: the deals, sorted once ranked
    fellBack,     \* extract_deals_from_gpt: fallback_single_deal was called
    branch,       \* handle_row: which update_monitor_row call is next
    pending,      \* handle_row: arguments of that call
    best_price,   \* handle_row
    best_source,  \* handle_row
    outcome,      \* handle_row: the status it returns
    prev,         \* the cells of the row when handle_row was entered
    calls         \* calls of collaborators made in this run, in order

vars == <<sheet, runLog, alertsLog, outbox, clock, pc, monitors, i, statuses,
          hpc, max_pp_val, raw, deals, fellBack, branch, pending, best_price,
          best_source, outcome, prev, calls>>

stores == <<sheet, runLog, alertsLog, outbox>>
logs == <<runLog, alertsLog, outbox>>
locals == <<max_pp_val, raw, deals, fellBack, branch, pending, best_price, best_source,
            outcome, prev>>

RowNums == FirstRowNum..(FirstRowNum + NumRows - 1)

Call(op, row, ok) == [op |-> op, row |-> row, ok |-> ok]

\* read_monitors: the rows whose Active cell is YES, in sheet order, each
\* with its _row_num.
RECURSIVE ActiveFrom(_, _)
ActiveFrom(sh, idx) ==
    IF idx > FirstRowNum + NumRows - 1 THEN <<>>
    ELSE (IF sh[idx].Active
          THEN <<[_row_num |-> idx, MaxPricePerPersonUSD |-> sh[idx].MaxPricePerPersonUSD]>>
          ELSE <<>>)
         \o ActiveFrom(sh, idx + 1)

read_monitors(sh) == ActiveFrom(sh, FirstRowNum)

\* "; ".join(statuses)
RECURSIVE Join(_)
Join(ss) ==
    IF ss = <<>> THEN <<>>
    ELSE IF Len(ss) = 1 THEN ss
    ELSE <<Head(ss), "; ">> \o Join(Tail(ss))

NoCells ==
    [Active |-> FALSE, MaxPricePerPersonUSD |-> Blank, LastBestPricePerPerson |-> Blank,
     LastBestSource |-> "", LastCheckedUTC |-> 0]

NoLocals ==
    /\ max_pp_val' = 0
    /\ raw' = <<>>
    /\ deals' = <<>>
    /\ fellBack' = FALSE
    /\ branch' = "none"
    /\ pending' = [price |-> Blank, source |-> ""]
    /\ best_price' = 0
    /\ best_source' = ""
    /\ outcome' = "none"
    /\ prev' = NoCells

\* handle_row up to the call of call_gpt_web: lines 402-428.
EnterRow(row) ==
    /\ max_pp_val' = EffectiveCeiling(row.MaxPricePerPersonUSD)
    /\ raw' = <<>>
    /\ deals' = <<>>
    /\ fellBack' = FALSE
    /\ branch' = "none"
    /\ pending' = [price |-> Blank, source |-> ""]
    /\ best_price' = 0
    /\ best_source' = ""
    /\ outcome' = "none"
    /\ prev' = sheet[row._row_num]
    /\ hpc' = "query"

\* An exception leaves monitor_once.
Raise ==
    /\ pc' = "raised"
    /\ hpc' = "none"
    /\ NoLocals

Init ==
    /\ \E active \in [RowNums -> BOOLEAN], ceiling \in Ceilings :
          sheet = [r \in RowNums |->
                      [Active |-> active[r], MaxPricePerPersonUSD |-> ceiling,
                       LastBestPricePerPerson |-> Blank, LastBestSource |-> "",
                       LastCheckedUTC |-> 0]]
    /\ runLog = <<>>
    /\ alertsLog = <<>>
    /\ outbox = <<>>
    /\ clock = 1
    /\ pc = "idle"
    /\ monitors = <<>>
    /\ i = 0
    /\ statuses = <<>>
    /\ hpc = "none"
    /\ max_pp_val = 0
    /\ raw = <<>>
    /\ deals = <<>>
    /\ fellBack = FALSE
    /\ branch = "none"
    /\ pending = [price |-> Blank, source |-> ""]
    /\ best_price = 0
    /\ best_source = ""
    /\ outcome = "none"
    /\ prev = NoCells
    /\ calls = <<>>

\* ------------------------------------------------------------------------
\* monitor_once
\* ------------------------------------------------------------------------
Ended == pc \in {"idle", "done", "raised"}

\* Lines 478-489: load_config, get_sheets_service and read_monitors
\* succeed; with active rows the loop enters handle_row on the first.
monitor_once_start ==
    /\ Ended
    /\ monitors' = read_monitors(sheet)
    /\ statuses' = <<>>
    /\ calls' = <<Call("read_monitors", 0, TRUE)>>
    /\ runLog' = <<>>
    /\ alertsLog' = <<>>
    /\ outbox' = <<>>
    /\ IF read_monitors(sheet) = <<>>
       THEN /\ pc' = "heartbeat"
            /\ i' = 0
            /\ hpc' = "none"
            /\ NoLocals
       ELSE /\ pc' = "rows"
            /\ i' = 1
            /\ EnterRow(read_monitors(sheet)[1])
    /\ UNCHANGED <<sheet, clock>>

\* Lines 479-481: one of them raises.
monitor_once_start_raise ==
    /\ Ended
    /\ monitors' = <<>>
    /\ statuses' = <<>>
    /\ i' = 0
    /\ calls' = <<Call("read_monitors", 0, FALSE)>>
    /\ runLog' = <<>>
    /\ alertsLog' = <<>>
    /\ outbox' = <<>>
    /\ Raise
    /\ UNCHANGED <<sheet, clock>>

\* Lines 485 and 496: append_run_log appends the heartbeat row.
\* append_run_log with the status of a completed run for the empty run too.
append_run_log_SameStatus ==
    /\ pc = "heartbeat"
    /\ runLog' = Append(runLog,
          [status |-> "completed", count |-> Len(monitors),
           notes |-> IF monitors = <<>> THEN <<"nothing_to_scan">> ELSE Join(statuses)])
    /\ calls' = Append(calls, Call("append_run_log", 0, TRUE))
    /\ pc' = "done"
    /\ UNCHANGED <<sheet, alertsLog, outbox, clock, monitors, i, statuses, hpc, locals>>

append_run_log ==
    /\ pc = "heartbeat"
    /\ runLog' = Append(runLog,
          IF monitors = <<>>
          THEN [status |-> "no_active_monitors", count |-> 0,
                notes |-> <<"nothing_to_scan">>]
          ELSE [status |-> "completed", count |-> Len(monitors),
                notes |-> Join(statuses)])
    /\ calls' = Append(calls, Call("append_run_log", 0, TRUE))
    /\ pc' = "done"
    /\ UNCHANGED <<sheet, alertsLog, outbox, clock, monitors, i, statuses, hpc, locals>>

\* The append of lines 117-122 raises.
append_run_log_raise ==
    /\ pc = "heartbeat"
    /\ calls' = Append(calls, Call("append_run_log", 0, FALSE))
    /\ Raise
    /\ UNCHANGED <<stores, clock, monitors, i, statuses>>

\* ------------------------------------------------------------------------
\* handle_row
\* ------------------------------------------------------------------------
InRow == pc = "rows" /\ i \in 1..Len(monitors)
\* rownum being the number of the first row of the list for every row.
rownum_First == monitors[1]._row_num

\* Line 402: the number of the row handle_row is handling.
rownum == monitors[i]._row_num

\* Line 432: call_gpt_web returns the text of the answer.
call_gpt_web ==
    /\ InRow
    /\ hpc = "query"
    /\ raw' \in RunTexts
    /\ calls' = Append(calls, Call("call_gpt_web", rownum, TRUE))
    /\ hpc' = "parse"
    /\ UNCHANGED <<stores, clock, pc, monitors, i, statuses, max_pp_val, deals,
                   fellBack, branch, pending, best_price, best_source, outcome, prev>>

\* call_gpt_web_raise with the write-back of line 435 left out: the
\* handler returns "gpt_error" at once.
call_gpt_web_raise_NoWriteBack ==
    /\ InRow
    /\ hpc = "query"
    /\ calls' = Append(calls, Call("call_gpt_web", rownum, FALSE))
    /\ branch' = "gpt_error"
    /\ outcome' = "gpt_error"
    /\ hpc' = "return"
    /\ UNCHANGED <<stores, clock, pc, monitors, i, statuses, max_pp_val, raw, deals,
                   fellBack, pending, best_price, best_source, prev>>

\* Lines 433-435: call_gpt_web raises; the row is to be marked.
call_gpt_web_raise ==
    /\ InRow
    /\ hpc = "query"
    /\ calls' = Append(calls, Call("call_gpt_web", rownum, FALSE))
    /\ branch' = "gpt_error"
    /\ pending' = write_on_gpt_error(sheet[rownum])
    /\ hpc' = "update"
    /\ UNCHANGED <<stores, clock, pc, monitors, i, statuses, max_pp_val, raw, deals,
                   fellBack, best_price, best_source, outcome, prev>>

\* Lines 439-457: extract the deals; without deals the row is to be marked,
\* otherwise sort them and take the first.  best.get raises on a scalar.
parse_and_rank ==
    /\ InRow
    /\ hpc = "parse"
    /\ LET r == extract_deals_from_gpt(raw)
           sorted == sort_by_price(r.deals)
       IN  IF r.deals = <<>>
           THEN /\ deals' = <<>>
                /\ fellBack' = r.fallback
                /\ branch' = "no_deals_found"
                /\ pending' = write_on_no_deals(sheet[rownum])
                /\ hpc' = "update"
                /\ UNCHANGED <<pc, max_pp_val, raw, best_price, best_source, outcome, prev>>
           ELSE IF sorted[1].kind = "scalar"
           THEN Raise
           ELSE /\ deals' = sorted
                /\ fellBack' = r.fallback
                /\ best_price' = price_val(sorted[1])
                /\ best_source' = sorted[1].source
                /\ branch' = "best"
                /\ pending' = write_on_best(sorted[1])
                /\ hpc' = "update"
                /\ UNCHANGED <<pc, max_pp_val, raw, outcome, prev>>
    /\ UNCHANGED <<stores, clock, monitors, i, statuses, calls>>

\* Lines 86-103, called at 435, 442 or 460, and what follows the call up to
\* the next call or the return: lines 436, 443, 463 and 469-470.
update_monitor_row ==
    /\ InRow
    /\ hpc = "update"
    /\ sheet' = sheet_after_update(sheet, rownum, pending, clock)
    /\ calls' = Append(calls, Call("update_monitor_row", rownum, TRUE))
    /\ IF branch = "gpt_error"
       THEN outcome' = "gpt_error" /\ hpc' = "return"
       ELSE IF branch = "no_deals_found"
       THEN outcome' = "no_deals_found" /\ hpc' = "return"
       ELSE IF meets_threshold(best_price, max_pp_val)
       THEN outcome' = outcome /\ hpc' = "notify"
       ELSE outcome' = "checked_no_alert" /\ hpc' = "return"
    /\ UNCHANGED <<runLog, alertsLog, outbox, clock, pc, monitors, i, statuses,
                   max_pp_val, raw, deals, fellBack, branch, pending, best_price, best_source, prev>>

\* The update of lines 98-103 raises.
update_monitor_row_raise ==
    /\ InRow
    /\ hpc = "update"
    /\ calls' = Append(calls, Call("update_monitor_row", rownum, FALSE))
    /\ Raise
    /\ UNCHANGED <<stores, clock, monitors, i, statuses>>

\* Line 465: send_email_alert sends the mail about best.
send_email_alert ==
    /\ InRow
    /\ hpc = "notify"
    /\ outbox' = Append(outbox, [row |-> rownum, price |-> deals[1].price,
                                 source |-> deals[1].source])
    /\ calls' = Append(calls, Call("send_email_alert", rownum, TRUE))
    /\ hpc' = "alertlog"
    /\ UNCHANGED <<sheet, runLog, alertsLog, clock, pc, monitors, i, statuses, locals>>

\* send_email_alert_raise with the failure caught inside handle_row.
send_email_alert_raise_Swallowed ==
    /\ InRow
    /\ hpc = "notify"
    /\ calls' = Append(calls, Call("send_email_alert", rownum, FALSE))
    /\ hpc' = "alertlog"
    /\ UNCHANGED <<stores, clock, pc, monitors, i, statuses, max_pp_val, raw, deals,
                   fellBack, branch, pending, best_price, best_source, outcome, prev>>

\* The SMTP session of lines 381-384 raises.
send_email_alert_raise ==
    /\ InRow
    /\ hpc = "notify"
    /\ calls' = Append(calls, Call("send_email_alert", rownum, FALSE))
    /\ Raise
    /\ UNCHANGED <<stores, clock, monitors, i, statuses>>

\* append_alert_to_sheet followed by a second write-back of the row.
append_alert_to_sheet_Rewrite ==
    /\ InRow
    /\ hpc = "alertlog"
    /\ alertsLog' = Append(alertsLog, [row |-> rownum, price |-> deals[1].price,
                                       source |-> deals[1].source])
    /\ calls' = calls \o <<Call("append_alert_to_sheet", rownum, TRUE),
                            Call("update_monitor_row", rownum, TRUE)>>
    /\ outcome' = "alert_sent"
    /\ hpc' = "return"
    /\ UNCHANGED <<sheet, runLog, outbox, clock, pc, monitors, i, statuses,
                   max_pp_val, raw, deals, fellBack, branch, pending, best_price, best_source, prev>>

\* Lines 466-467: append_alert_to_sheet appends the Alerts_Log row.
append_alert_to_sheet ==
    /\ InRow
    /\ hpc = "alertlog"
    /\ alertsLog' = Append(alertsLog, [row |-> rownum, price |-> deals[1].price,
                                       source |-> deals[1].source])
    /\ calls' = Append(calls, Call("append_alert_to_sheet", rownum, TRUE))
    /\ outcome' = "alert_sent"
    /\ hpc' = "return"
    /\ UNCHANGED <<sheet, runLog, outbox, clock, pc, monitors, i, statuses,
                   max_pp_val, raw, deals, fellBack, branch, pending, best_price, best_source, prev>>

\* The append of lines 171-176 raises.
append_alert_to_sheet_raise ==
    /\ InRow
    /\ hpc = "alertlog"
    /\ calls' = Append(calls, Call("append_alert_to_sheet", rownum, FALSE))
    /\ Raise
    /\ UNCHANGED <<stores, clock, monitors, i, statuses>>

\* handle_row_return putting the status in front of the earlier ones.
handle_row_return_Prepend ==
    /\ InRow
    /\ hpc = "return"
    /\ statuses' = <<outcome>> \o statuses
    /\ IF i < Len(monitors)
       THEN /\ i' = i + 1
            /\ pc' = pc
            /\ EnterRow(monitors[i + 1])
       ELSE /\ i' = i
            /\ pc' = "heartbeat"
            /\ hpc' = "none"
            /\ NoLocals
    /\ UNCHANGED <<stores, clock, monitors, calls>>

\* Lines 490-494: handle_row has returned; the status is collected and the
\* loop goes on to the next row, or ends.
handle_row_return ==
    /\ InRow
    /\ hpc = "return"
    /\ statuses' = Append(statuses, outcome)
    /\ IF i < Len(monitors)
       THEN /\ i' = i + 1
            /\ pc' = pc
            /\ EnterRow(monitors[i + 1])
       ELSE /\ i' = i
            /\ pc' = "heartbeat"
            /\ hpc' = "none"
            /\ NoLocals
    /\ UNCHANGED <<stores, clock, monitors, calls>>

\* now_utc_iso reads a clock that advances by itself.  Of the timestamps
\* only the one update_monitor_row writes is kept, so the clock is let
\* advance right before that call, where every earlier second has passed.
Tick ==
    /\ hpc = "update"
    /\ clock < MaxClock
    /\ clock' = clock + 1
    /\ UNCHANGED <<stores, pc, monitors, i, statuses, hpc, locals, calls>>

Next ==
    \/ monitor_once_start
    \/ monitor_once_start_raise
    \/ call_gpt_web
    \/ call_gpt_web_raise
    \/ parse_and_rank
    \/ update_monitor_row
    \/ update_monitor_row_raise
    \/ send_email_alert
    \/ send_email_alert_raise
    \/ append_alert_to_sheet
    \/ append_alert_to_sheet_raise
    \/ handle_row_return
    \/ append_run_log
    \/ append_run_log_raise
    \/ Tick

Spec == Init /\ [][Next]_vars

\* monitor_once on a sheet with one active row, whose ceiling is any of
\* CeilingCells.
InitCeil ==
    /\ \E ceiling \in CeilingCells :
          sheet = [r \in RowNums |->
                      [Active |-> (r = FirstRowNum), MaxPricePerPersonUSD |-> ceiling,
                       LastBestPricePerPerson |-> Blank, LastBestSource |-> "",
                       LastCheckedUTC |-> 0]]
    /\ runLog = <<>>
    /\ alertsLog = <<>>
    /\ outbox = <<>>
    /\ clock = 1
    /\ pc = "idle"
    /\ monitors = <<>>
    /\ i = 0
    /\ statuses = <<>>
    /\ hpc = "none"
    /\ max_pp_val = 0
    /\ raw = <<>>
    /\ deals = <<>>
    /\ fellBack = FALSE
    /\ branch = "none"
    /\ pending = [price |-> Blank, source |-> ""]
    /\ best_price = 0
    /\ best_source = ""
    /\ outcome = "none"
    /\ prev = NoCells
    /\ calls = <<>>

SpecCeil == InitCeil /\ [][Next]_vars

\* ------------------------------------------------------------------------
\* The extractor and the ranker on every text of the bounded sets: handle_row
\* of the only active row, right after call_gpt_web has returned the text.
\* ------------------------------------------------------------------------
ParseTexts == ShortTexts \cup CutTexts \cup RankTexts

InitParse ==
    /\ sheet = [r \in RowNums |->
                   [Active |-> (r = FirstRowNum), MaxPricePerPersonUSD |-> Blank,
                    LastBestPricePerPerson |-> Blank, LastBestSource |-> "",
                    LastCheckedUTC |-> 0]]
    /\ runLog = <<>>
    /\ alertsLog = <<>>
    /\ outbox = <<>>
    /\ clock = 1
    /\ pc = "rows"
    /\ monitors = <<[_row_num |-> FirstRowNum, MaxPricePerPersonUSD |-> Blank]>>
    /\ i = 1
    /\ statuses = <<>>
    /\ hpc = "parse"
    /\ max_pp_val = DefaultCeiling
    /\ raw \in ParseTexts
    /\ deals = <<>>
    /\ fellBack = FALSE
    /\ branch = "none"
    /\ pending = [price |-> Blank, source |-> ""]
    /\ best_price = 0
    /\ best_source = ""
    /\ outcome = "none"
    /\ prev = sheet[FirstRowNum]
    /\ calls = <<Call("read_monitors", 0, TRUE), Call("call_gpt_web", FirstRowNum, TRUE)>>

NextParse == parse_and_rank

SpecParse == InitParse /\ [][NextParse]_vars

\* ------------------------------------------------------------------------
\* Properties
\* ------------------------------------------------------------------------
Tags == {"gpt_error", "no_deals_found", "alert_sent", "checked_no_alert"}

\* The indexes of the calls of op for a row in this run, by result.
CallsOf(op, row, ok) == {k \in 1..Len(calls) : calls[k] = Call(op, row, ok)}

RunEnded == pc \in {"done", "raised"}

\* C1: when a run of monitor_once has ended after read_monitors returned the
\* active rows, and the heartbeat append did not itself fail, Run_Log has
\* got exactly one row in this run, whose count is the number of active rows.
C1_HeartbeatAlways ==
    (/\ RunEnded
     /\ calls[1] = Call("read_monitors", 0, TRUE)
     /\ CallsOf("append_run_log", 0, FALSE) = {})
    => /\ Len(runLog) = 1
       /\ runLog[1].count = Len(monitors)

\* C2: monitor_once is never left by an exception of a search or store call
\* that handle_row made: such a failure becomes the status of the row.
C2_FailureIsolation ==
    pc = "raised" =>
        ~(/\ calls[Len(calls)].ok = FALSE
          /\ calls[Len(calls)].op \in {"call_gpt_web", "update_monitor_row",
                                       "append_alert_to_sheet"})

\* C3: handle_row is about to return, or has returned, a status for a row
\* only after an update_monitor_row call for that row succeeded in the same
\* invocation, that is after the call_gpt_web call of the invocation; the
\* status it returns is one of the four tags.
WroteBack(row) ==
    \E k \in CallsOf("update_monitor_row", row, TRUE) :
        \E q \in 1..(k - 1) : calls[q].op = "call_gpt_web" /\ calls[q].row = row

C3_WriteBackBeforeTerminal ==
    /\ \A j \in 1..Len(statuses) : statuses[j] \in Tags /\ WroteBack(monitors[j]._row_num)
    /\ (InRow /\ hpc = "return") => (outcome \in Tags /\ WroteBack(rownum))

C3_Witness ==
    /\ InRow
    /\ hpc = "return"
    /\ Len(statuses) = 1
    /\ statuses[1] = "gpt_error"
    /\ outcome = "checked_no_alert"

\* The row of handle_row differs from what it was on entry in at most the
\* three cells update_monitor_row writes.
OtherCellsKept ==
    /\ sheet[rownum].Active = prev.Active
    /\ sheet[rownum].MaxPricePerPersonUSD = prev.MaxPricePerPersonUSD

GptRaised == InRow /\ hpc = "return" /\ CallsOf("call_gpt_web", rownum, FALSE) # {}

\* C4 (as claimed): when call_gpt_web raised, handle_row returns the
\* source-error status and the row holds the last best price and source it
\* held on entry.
C4_SourceErrorKeepsBest ==
    GptRaised =>
        /\ outcome = "gpt_error"
        /\ sheet[rownum].LastBestPricePerPerson = prev.LastBestPricePerPerson
        /\ sheet[rownum].LastBestSource = prev.LastBestSource

\* C4 (amended): when call_gpt_web raised, handle_row returns "gpt_error"
\* and the row holds an empty last best price, the source "gpt_call_failed"
\* and the time of the write as last-checked time, whatever it held before.
C4_SourceErrorMarksRow ==
    GptRaised =>
        /\ outcome = "gpt_error"
        /\ sheet[rownum].LastBestPricePerPerson = Blank
        /\ sheet[rownum].LastBestSource = "gpt_call_failed"
        /\ sheet[rownum].LastCheckedUTC = clock
        /\ OtherCellsKept

C4_Witness ==
    /\ GptRaised
    /\ prev.LastBestPricePerPerson = NumStr(150)
    /\ prev.LastBestSource = "kayak"
    /\ sheet[rownum].LastBestSource = "gpt_call_failed"

NoDeals ==
    /\ InRow
    /\ hpc = "return"
    /\ CallsOf("call_gpt_web", rownum, TRUE) # {}
    /\ extract_deals_from_gpt(raw).deals = <<>>

\* C5 (as claimed): when the extractor returns no deals, handle_row returns
\* the no-candidates status and the row holds the last best price and
\* source it held on entry.
C5_NoDealsKeepsBest ==
    NoDeals =>
        /\ outcome = "no_deals_found"
        /\ sheet[rownum].LastBestPricePerPerson = prev.LastBestPricePerPerson
        /\ sheet[rownum].LastBestSource = prev.LastBestSource

\* C5 (amended): when the extractor returns no deals, handle_row returns
\* "no_deals_found" and the row holds an empty last best price, the source
\* "no_deals_found" and the time of the write as last-checked time,
\* whatever it held before.
C5_NoDealsMarksRow ==
    NoDeals =>
        /\ outcome = "no_deals_found"
        /\ sheet[rownum].LastBestPricePerPerson = Blank
        /\ sheet[rownum].LastBestSource = "no_deals_found"
        /\ sheet[rownum].LastCheckedUTC = clock
        /\ OtherCellsKept

C5_Witness ==
    /\ NoDeals
    /\ prev.LastBestPricePerPerson = NumStr(200)
    /\ prev.LastBestSource = "expedia"
    /\ sheet[rownum].LastBestSource = "no_deals_found"

\* The e-mails and the Alerts_Log rows of this run about a row.
MailsOf(row) == {k \in 1..Len(outbox) : outbox[k].row = row}
LoggedOf(row) == {k \in 1..Len(alertsLog) : alertsLog[k].row = row}

\* C6: with deals, handle_row sends at most one e-mail and appends at most
\* one Alerts_Log row, none while the coerced price of the best deal is
\* above the ceiling of the row; it returns "alert_sent", after exactly one
\* e-mail and one Alerts_Log row, if and only if that price is <= the
\* ceiling, and "checked_no_alert" otherwise; the rows whose status is not
\* "alert_sent" got no e-mail and no Alerts_Log row.
C6_ThresholdDecision ==
    /\ (InRow /\ deals # <<>>) =>
          LET bp == price_val(deals[1])
              cl == EffectiveCeiling(monitors[i].MaxPricePerPersonUSD)
          IN  /\ Cardinality(MailsOf(rownum)) <= 1
              /\ Cardinality(LoggedOf(rownum)) <= 1
              /\ bp > cl => (MailsOf(rownum) = {} /\ LoggedOf(rownum) = {})
              /\ hpc = "return" =>
                    IF bp <= cl
                    THEN /\ outcome = "alert_sent"
                         /\ Cardinality(MailsOf(rownum)) = 1
                         /\ Cardinality(LoggedOf(rownum)) = 1
                         /\ outbox[Len(outbox)].price = deals[1].price
                         /\ alertsLog[Len(alertsLog)].price = deals[1].price
                    ELSE outcome = "checked_no_alert"
    /\ \A j \in 1..Len(statuses) :
          IF statuses[j] = "alert_sent"
          THEN /\ Cardinality(MailsOf(monitors[j]._row_num)) = 1
               /\ Cardinality(LoggedOf(monitors[j]._row_num)) = 1
          ELSE /\ MailsOf(monitors[j]._row_num) = {}
               /\ LoggedOf(monitors[j]._row_num) = {}

C6_Witness ==
    /\ InRow
    /\ hpc = "return"
    /\ outcome = "alert_sent"
    /\ price_val(deals[1]) = 150
    /\ max_pp_val = 150
    /\ Len(statuses) = 1
    /\ statuses[1] = "checked_no_alert"

IsMalformed(d) == d.kind = "scalar" \/ d.price.k \notin {"num", "numstr"}

\* C7: when the best deal of handle_row has a missing or non-numeric price,
\* no e-mail is sent and no Alerts_Log row is appended for the row, whatever
\* its ceiling.
C7_MalformedNeverAlerts ==
    (InRow /\ deals # <<>> /\ IsMalformed(deals[1])) =>
        (MailsOf(rownum) = {} /\ LoggedOf(rownum) = {})

\* The deals the extractor gave handle_row, in the extractor's order.
Extracted == extract_deals_from_gpt(raw).deals

Ranked == InRow /\ hpc = "update" /\ branch = "best"

\* C8: the deal taken as best has a coerced price <= the coerced price of
\* every deal, and it has a missing or non-numeric price only when every
\* deal has.
C8_RankerTotalOrder ==
    Ranked =>
        /\ \A j \in 1..Len(Extracted) : price_val(deals[1]) <= price_val(Extracted[j])
        /\ IsMalformed(deals[1]) => \A j \in 1..Len(Extracted) : IsMalformed(Extracted[j])

\* The first index of a deal of the least coerced price.
FirstMin(ds) ==
    CHOOSE m \in 1..Len(ds) :
        /\ \A j \in 1..Len(ds) : price_val(ds[m]) <= price_val(ds[j])
        /\ \A j \in 1..(m - 1) : price_val(ds[j]) > price_val(ds[m])

\* C9: the deal taken as best is the first deal, in the extractor's order,
\* of the least coerced price; when every deal is an object without a
\* numeric price, handle_row does not raise and takes the first deal.
C9_RankerTieBreak ==
    /\ Ranked => deals[1] = Extracted[FirstMin(Extracted)]
    /\ (/\ hpc # "parse"
        /\ Extracted # <<>>
        /\ \A j \in 1..Len(Extracted) :
              Extracted[j].kind = "dict" /\ IsMalformed(Extracted[j]))
       => (Ranked /\ deals[1] = Extracted[1])

C9_Witness ==
    /\ Ranked
    /\ Len(deals) = 3
    /\ deals[1] = Deal(PStr, "kayak")
    /\ deals[2] = Deal(PMissing, "expedia")
    /\ deals[3] = Deal(PStr, "expedia")
    /\ Extracted = deals

\* C10: when the balanced object parses and holds at least one deal, the
\* fallback is not called and the deals of handle_row are the deals of that
\* object (sorted, once handle_row has ranked them).
C10_BalancedObjectFirst ==
    (/\ InRow
     /\ hpc = "update"
     /\ json_loads(safe_extract_deals_json(raw)).ok
     /\ json_loads(safe_extract_deals_json(raw)).deals # <<>>)
    => /\ ~fellBack
       /\ deals = sort_by_price(json_loads(safe_extract_deals_json(raw)).deals)

C10_Witness ==
    /\ InRow
    /\ hpc = "update"
    /\ ~fellBack
    /\ Len(deals) = 2
    /\ json_loads(safe_extract_deals_json(raw)).deals = <<Malformed, Cheap>>
    /\ fallback_single_deal(raw) = <<Malformed>>
    /\ raw[1].t = "x"

\* The balanced-object stage gave extract_deals_from_gpt nothing: no "{",
\* a depth that never returns to zero, or a span json.loads rejects.
Stage1Fails ==
    \/ safe_extract_deals_json(raw) = <<>>
    \/ ~json_loads(safe_extract_deals_json(raw)).ok

Truncated == FindBrace(raw, 1) # 0 /\ safe_extract_deals_json(raw) = <<>>

\* d is an object that is complete in the text: it opens right after a
\* "deals": [ marker, closes at the first "}" after that and parses.
CompleteAfterMarker(d) ==
    \E m \in 1..Len(raw), j \in 1..Len(raw) :
        /\ m + 1 < j
        /\ raw[m].t = "D"
        /\ raw[m + 1].t = "{"
        /\ raw[j].t = "}"
        /\ \A q \in (m + 2)..(j - 1) : raw[q].t # "}"
        /\ json_loads(SubSeq(raw, m + 1, j)).ok
        /\ d = Deal(json_loads(SubSeq(raw, m + 1, j)).price,
                    json_loads(SubSeq(raw, m + 1, j)).source)

Parsed == InRow /\ hpc = "update" /\ branch \in {"best", "no_deals_found"}

\* C11 (as claimed): for a text whose balanced-object stage fails, a
\* truncated top-level object included, the extractor gives no deals.
C11_MalformedGivesNothing ==
    (Parsed /\ Stage1Fails) => deals = <<>>

\* C11 (amended): for a text whose balanced-object stage fails, the
\* extractor calls the fallback and gives either no deals or one deal, and
\* that deal is an object that is complete in the text, directly after a
\* "deals": [ marker; it gives no deals when the text has no such object.
C11_MalformedGivesWholeOrNothing ==
    (Parsed /\ Stage1Fails) =>
        /\ fellBack
        /\ Len(deals) <= 1
        /\ deals # <<>> => (deals[1].kind = "dict" /\ CompleteAfterMarker(deals[1]))
        /\ (~\E p \in RankPrices \cup {PNum(150)}, src \in {"", "kayak", "expedia"} :
                CompleteAfterMarker(Deal(p, src)))
           => deals = <<>>

C11_Witness ==
    /\ Parsed
    /\ Truncated
    /\ deals = <<Cheap>>
    /\ Len(raw) = 8
    /\ raw[6].t = "{"
    /\ raw[8].t = "}"

\* C12: the last-checked time handle_row leaves in the row is greater than
\* the one the row held when handle_row was entered.
C12_TimestampIncreases ==
    (InRow /\ hpc = "return") => sheet[rownum].LastCheckedUTC > prev.LastCheckedUTC

ReadOk == calls # <<>> /\ calls[1] = Call("read_monitors", 0, TRUE)

\* C13: in a run where read_monitors returned no active rows, monitor_once
\* calls nothing but the heartbeat append: no call_gpt_web, no
\* update_monitor_row, no e-mail, no Alerts_Log row; when it is done Run_Log
\* has got one row, with count 0 and a status that no run with active rows
\* uses, the status of such a run being "completed".
C13_EmptySetShortCircuit ==
    /\ (ReadOk /\ monitors = <<>>) =>
          /\ \A k \in 2..Len(calls) : calls[k].op = "append_run_log" /\ k = 2
          /\ outbox = <<>>
          /\ alertsLog = <<>>
          /\ statuses = <<>>
          /\ pc = "done" =>
                /\ Len(runLog) = 1
                /\ runLog[1].count = 0
                /\ runLog[1].status = "no_active_monitors"
    /\ (ReadOk /\ monitors # <<>>) =>
          \A k \in 1..Len(runLog) :
              runLog[k].status = "completed" /\ runLog[k].status # "no_active_monitors"

C13_Witness ==
    /\ ReadOk
    /\ monitors = <<>>
    /\ pc = "done"
    /\ Len(runLog) = 1
    /\ Len(calls) = 2

\* The calls of this run that were made for a row, in order.
RowCalls == SelectSeq(calls, LAMBDA c : c.row # 0)

\* The index in monitors of the row with this number.
IndexOf(row) == CHOOSE j \in 1..Len(monitors) : monitors[j]._row_num = row

\* What handle_row did for a row, read off the calls and the sheet.
OutcomeOf(row) ==
    IF CallsOf("call_gpt_web", row, FALSE) # {} THEN "gpt_error"
    ELSE IF CallsOf("append_alert_to_sheet", row, TRUE) # {} THEN "alert_sent"
    ELSE IF sheet[row].LastBestSource = "no_deals_found" THEN "no_deals_found"
    ELSE "checked_no_alert"

\* C14: the rows are handled one after another in the order of the list
\* (the calls made for a row never come before a call made for an earlier
\* row, and there is a status for every row before the one being handled);
\* the heartbeat append of a run with rows comes last, after every row has
\* its status; the notes written are the statuses joined with "; ", one
\* per row, the j-th being what handle_row did for the j-th row.
C14_OrderedAggregation ==
    /\ \A k \in 1..Len(RowCalls) :
          /\ \E j \in 1..Len(monitors) : monitors[j]._row_num = RowCalls[k].row
          /\ k > 1 => IndexOf(RowCalls[k - 1].row) <= IndexOf(RowCalls[k].row)
    /\ InRow => Len(statuses) = i - 1
    /\ \A j \in 1..Len(statuses) :
          j <= Len(monitors) /\ statuses[j] = OutcomeOf(monitors[j]._row_num)
    /\ (ReadOk /\ monitors # <<>>) =>
          \A k \in 1..Len(calls) :
              calls[k].op = "append_run_log" =>
                  k = Len(calls) /\ Len(statuses) = Len(monitors)
    /\ (pc = "done" /\ monitors # <<>>) =>
          /\ Len(runLog) = 1
          /\ runLog[1].count = Len(monitors)
          /\ Len(runLog[1].notes) = 2 * Len(monitors) - 1
          /\ \A j \in 1..Len(monitors) :
                runLog[1].notes[2 * j - 1] = OutcomeOf(monitors[j]._row_num)
          /\ \A j \in 1..(Len(monitors) - 1) : runLog[1].notes[2 * j] = "; "

C14_Witness ==
    /\ pc = "done"
    /\ Len(monitors) = 2
    /\ runLog[1].notes = <<"gpt_error", "; ", "alert_sent">>

\* The calls for a row that were made before the k-th call of the run.
UpdatedBefore(row, k) ==
    \E q \in CallsOf("update_monitor_row", row, TRUE) : q < k

\* C15: with deals, once update_monitor_row has returned the row holds the
\* coerced price and the source of the best deal and the clock's reading at
\* the write, whether the price meets the ceiling or not; every call of
\* send_email_alert and of append_alert_to_sheet for a row comes after
\* that write-back of the row.
C15_PersistBestBeforeDeciding ==
    /\ (InRow /\ branch = "best" /\ hpc \in {"notify", "alertlog", "return"}) =>
          /\ sheet[rownum].LastBestPricePerPerson = NumStr(price_val(deals[1]))
          /\ sheet[rownum].LastBestSource = deals[1].source
          /\ sheet[rownum].LastCheckedUTC = clock
          /\ sheet[rownum].LastCheckedUTC >= prev.LastCheckedUTC
          /\ hpc = "return" => outcome \in {"alert_sent", "checked_no_alert"}
    /\ \A k \in 1..Len(calls) :
          calls[k].op \in {"send_email_alert", "append_alert_to_sheet"} =>
              UpdatedBefore(calls[k].row, k)

C15_Witness ==
    /\ InRow
    /\ branch = "best"
    /\ hpc = "return"
    /\ outcome = "checked_no_alert"
    /\ clock > prev.LastCheckedUTC
    /\ prev.LastBestSource = "no_deals_found"
    /\ sheet[rownum].LastBestPricePerPerson = NumStr(200)
    /\ sheet[rownum].LastBestSource = "expedia"

\* The number of "{" less the number of "}" in txt[a..b].
RECURSIVE Net(_, _, _)
Net(txt, a, b) ==
    IF a > b THEN 0
    ELSE Net(txt, a, b - 1)
         + (IF txt[b].t = "{" THEN 1 ELSE IF txt[b].t = "}" THEN -1 ELSE 0)

Opens(txt) == {a \in 1..Len(txt) : txt[a].t = "{"}

\* The span from the first "{" to the first place where as many "}" as "{"
\* have been read, or nothing.
BalancedSpan(txt) ==
    IF Opens(txt) = {} THEN <<>>
    ELSE LET a == CHOOSE x \in Opens(txt) : \A y \in Opens(txt) : x <= y
             ends == {e \in a..Len(txt) : Net(txt, a, e) = 0}
         IN  IF ends = {} THEN <<>>
             ELSE SubSeq(txt, a, CHOOSE e \in ends : \A f \in ends : e <= f)

\* C16: safe_extract_deals_json gives nothing when the text has no "{" or
\* the depth never returns to zero, and otherwise the span from the first
\* "{" to the first "}" at which the depth is zero again; what follows that
\* span has no effect: the result is the same for the text cut after the
\* span and for the text with one more object at its end.
C16_BalancedObjectScan ==
    (InRow /\ hpc \in {"parse", "update"}) =>
        LET span == safe_extract_deals_json(raw)
        IN  /\ span = BalancedSpan(raw)
            /\ span # <<>> =>
                  /\ span[1].t = "{"
                  /\ span[Len(span)].t = "}"
                  /\ Net(span, 1, Len(span)) = 0
                  /\ \A e \in 1..(Len(span) - 1) : Net(span, 1, e) > 0
                  /\ safe_extract_deals_json(raw \o <<Tok("{"), Tok("}")>>) = span
                  /\ \A e \in 1..Len(raw) :
                        safe_extract_deals_json(SubSeq(raw, 1, e)) \in {<<>>, span}
            /\ (Opens(raw) = {} \/ \A e \in 1..Len(raw) : Net(raw, FindBrace(raw, 1), e) # 0)
               => span = <<>>

C16_Witness ==
    /\ InRow
    /\ hpc = "update"
    /\ ~fellBack
    /\ safe_extract_deals_json(raw) # <<>>
    /\ \E a \in (FindBrace(raw, 1) + Len(safe_extract_deals_json(raw)))..Len(raw) :
          raw[a].t = "{"

\* The rows of the list that handle_row has not been called for yet have
\* no call made for them; the rows that have a status were written back.
OnlyStartedRowsCalled ==
    \A j \in 1..Len(monitors) :
        /\ (j > i) => \A k \in 1..Len(calls) : calls[k].row # monitors[j]._row_num
        /\ (j <= Len(statuses)) =>
               CallsOf("update_monitor_row", monitors[j]._row_num, TRUE) # {}

\* A step changes the cells of a row only when it is the write-back of the
\* row handle_row is handling, and then only columns M, N and O of it.
OnlyOwnRowWritten ==
    \A r \in RowNums :
        sheet'[r] # sheet[r] =>
            /\ pc = "rows"
            /\ i \in 1..Len(monitors)
            /\ hpc = "update"
            /\ r = monitors[i]._row_num
            /\ sheet'[r].Active = sheet[r].Active
            /\ sheet'[r].MaxPricePerPersonUSD = sheet[r].MaxPricePerPersonUSD
            /\ calls' = Append(calls, Call("update_monitor_row", r, TRUE))

\* C17: handling a row changes only that row's last best price, source
\* and time; every other row keeps all its cells, so when a run stops
\* early the rows not yet handled have had no call made for them and are
\* as they were, and the rows with a status have been written back.
C17_PerCriterionFrame ==
    [](ReadOk => OnlyStartedRowsCalled) /\ [][OnlyOwnRowWritten]_vars

C17_Witness ==
    /\ pc = "raised"
    /\ ReadOk
    /\ Len(monitors) = 2
    /\ Len(statuses) = 1
    /\ i = 2
    /\ sheet[monitors[1]._row_num].LastCheckedUTC = 1
    /\ sheet[monitors[1]._row_num].LastBestSource = "kayak"
    /\ sheet[monitors[2]._row_num].LastCheckedUTC = 0
    /\ sheet[monitors[2]._row_num].LastBestSource = ""

\* C18: the ceiling handle_row compares with is the number in the row's
\* MaxPricePerPersonUSD cell whenever the cell holds a number, zero and
\* negative numbers included, and the default ceiling when the cell is
\* blank or not a number; resolving it raises nothing (a run that read its
\* rows gets to the call of call_gpt_web), and the alert decision is the
\* comparison of the best price with that ceiling.
C18_EffectiveCeiling ==
    /\ InRow =>
          LET cell == monitors[i].MaxPricePerPersonUSD
              ceiling == IF cell.num THEN cell.v ELSE DefaultCeiling
          IN  /\ hpc # "none"
              /\ max_pp_val = ceiling
              /\ (cell \in {Blank, Junk}) => max_pp_val = DefaultCeiling
              /\ (branch = "best" /\ hpc \in {"notify", "alertlog"})
                    => price_val(deals[1]) <= ceiling
              /\ (branch = "best" /\ hpc = "return") =>
                    (outcome = "alert_sent" <=> price_val(deals[1]) <= ceiling)
    /\ (ReadOk /\ monitors # <<>>) =>
          (pc = "rows" \/ (Len(calls) >= 2 /\ calls[2].op = "call_gpt_web"))

C18_Witness ==
    /\ InRow
    /\ monitors[i].MaxPricePerPersonUSD = NumStr(0)
    /\ max_pp_val = 0
    /\ hpc = "return"
    /\ best_price = 150
    /\ outcome = "checked_no_alert"

\* The calls of update_monitor_row made for a row in this run, failed ones
\* included.
UpdatesOf(row) ==
    {k \in 1..Len(calls) : calls[k].op = "update_monitor_row" /\ calls[k].row = row}

\* C19: when handle_row returns a status it has called update_monitor_row
\* exactly once for its row, and the call returned; so after the loop over
\* n rows the run has made exactly n such calls, one for each row.
C19_SingleWriteBack ==
    /\ (InRow /\ hpc = "return") =>
          /\ Cardinality(UpdatesOf(rownum)) = 1
          /\ UpdatesOf(rownum) = CallsOf("update_monitor_row", rownum, TRUE)
    /\ \A j \in 1..Len(statuses) :
          /\ Cardinality(UpdatesOf(monitors[j]._row_num)) = 1
          /\ UpdatesOf(monitors[j]._row_num)
                = CallsOf("update_monitor_row", monitors[j]._row_num, TRUE)
    /\ (ReadOk /\ Len(statuses) = Len(monitors)) =>
          Cardinality({k \in 1..Len(calls) : calls[k].op = "update_monitor_row"})
              = Len(monitors)

C19_Witness ==
    /\ pc = "done"
    /\ Len(monitors) = 2
    /\ statuses = <<"alert_sent", "gpt_error">>
    /\ Cardinality({k \in 1..Len(calls) : calls[k].op = "update_monitor_row"}) = 2

\* C20: every call of append_alert_to_sheet comes right after a call of
\* send_email_alert for the same row that returned; the Alerts_Log rows of
\* the run are never more than the mails sent, the k-th row being about the
\* row and the deal of the k-th mail.
C20_AlertLogFollowsNotification ==
    /\ \A k \in 1..Len(calls) :
          calls[k].op = "append_alert_to_sheet" =>
              k > 1 /\ calls[k - 1] = Call("send_email_alert", calls[k].row, TRUE)
    /\ Len(alertsLog) <= Len(outbox)
    /\ \A k \in 1..Len(alertsLog) : alertsLog[k] = outbox[k]
    /\ Len(outbox) = Cardinality({k \in 1..Len(calls) :
                         calls[k].op = "send_email_alert" /\ calls[k].ok})
    /\ Len(alertsLog) = Cardinality({k \in 1..Len(calls) :
                            calls[k].op = "append_alert_to_sheet" /\ calls[k].ok})

C20_Witness ==
    /\ pc = "raised"
    /\ Len(outbox) = 2
    /\ Len(alertsLog) = 1
    /\ calls[Len(calls)] = Call("append_alert_to_sheet", monitors[2]._row_num, FALSE)

====
